---- MODULE Spec2Model ----
(***************************************************************************)
(* Model of p_winds/transit.py: draw_transit, the transit grid renderer.   *)
(*                                                                         *)
(* Numbers.  The real-valued arguments are exact rationals with a fixed    *)
(* denominator: planet_to_star_ratio = ratio_num / RatioDen,               *)
(* phase = phase_num / PhaseDen, impact_parameter = impact_num / ImpactDen;*)
(* planet_physical_radius, the radii and the densities are integers.       *)
(* A flux pixel is kept as its integer numerator over norm (the code       *)
(* divides both disks by the same norm), so "the map sums to 1.0" reads    *)
(* "the numerators sum to norm".  A column density is kept exactly as      *)
(* (num + irr * sqrt(rad)) / den.  Floating-point rounding is not          *)
(* modelled.                                                               *)
(*                                                                         *)
(* Pixels are indexed from 0 as in the code: map[row][col].                *)
(***************************************************************************)
EXTENDS Integers, Sequences, FiniteSets, TLC

\* ---------------------------------------------------------------- bounds
MaxGrid == 4         \* grid_size ranges over 1..MaxGrid
RatioDen == 2        \* planet_to_star_ratio = ratio_num / RatioDen
MaxRatioNum == 3     \* ratio_num ranges over 0..MaxRatioNum
PhaseDen == 2        \* phase = phase_num / PhaseDen
MaxPhaseNum == 1     \* phase_num ranges over -MaxPhaseNum..MaxPhaseNum
ImpactDen == 2       \* impact_parameter = impact_num / ImpactDen
MaxImpactNum == 1    \* impact_num ranges over -MaxImpactNum..MaxImpactNum
MaxRadius == 2       \* profile_radius samples range over 1..MaxRadius
MaxDensity == 1      \* density_profile samples range over 0..MaxDensity
MaxPhys == 1         \* planet_physical_radius ranges over 1..MaxPhys

\* ------------------------------------------------------------ arithmetic
Abs(n) == IF n < 0 THEN -n ELSE n

\* Python int() of the rational n / d (d > 0): truncation toward zero.
int(n, d) == IF n >= 0 THEN n \div d ELSE -((-n) \div d)

\* Python // on the rational n / d (d > 0): floor.
FloorDiv(n, d) == n \div d

RECURSIVE isqrt_from(_, _)
isqrt_from(n, k) == IF (k + 1) * (k + 1) > n THEN k ELSE isqrt_from(n, k + 1)

\* Largest k with k * k <= n.
isqrt(n) == isqrt_from(n, 0)

IsSquare(n) == isqrt(n) * isqrt(n) = n

\* An omitted argument or a value not yet computed, and a present optional
\* scalar.
None == <<>>
Some(v) == <<v>>

Pixels(grid_size) == 0 .. (grid_size - 1)

\* Sum of all entries of a square map.
RECURSIVE SumRow(_, _)
SumRow(row, n) == IF n = 0 THEN 0 ELSE row[n - 1] + SumRow(row, n - 1)

RECURSIVE SumRows(_, _, _)
SumRows(map, gs, n) == IF n = 0 THEN 0 ELSE SumRow(map[n - 1], gs) + SumRows(map, gs, n - 1)

np_sum(map, gs) == SumRows(map, gs, gs)

\* ------------------------------------------- ImageDraw.ellipse (Pillow)
\* Deviation of the point (x, y) from the ellipse of axes a, b
\* (coordinates doubled, relative to the centre of the bounding box).
quarter_delta(a, b, x, y) == Abs(a * a * y * y + b * b * x * x - a * a * b * b)

\* One step of the outline walk from (cx, cy): up, diagonal or left,
\* whichever deviates least, the earlier candidate winning ties.
quarter_next(a, b, cx, cy) ==
    LET up   == quarter_delta(a, b, cx, cy + 2)
        diag == quarter_delta(a, b, cx - 2, cy + 2)
        left == quarter_delta(a, b, cx - 2, cy)
    IN  IF cx > 1
        THEN IF up > diag
             THEN (IF diag > left THEN <<cx - 2, cy>> ELSE <<cx - 2, cy + 2>>)
             ELSE (IF up > left THEN <<cx - 2, cy>> ELSE <<cx, cy + 2>>)
        ELSE <<cx, cy + 2>>

\* The points of the outline of one quarter, from (cx, cy) to (a % 2, b).
RECURSIVE quarter_walk(_, _, _, _)
quarter_walk(a, b, cx, cy) ==
    IF cx = a % 2 /\ cy = b
    THEN {<<cx, cy>>}
    ELSE LET n == quarter_next(a, b, cx, cy)
         IN  {<<cx, cy>>} \cup quarter_walk(a, b, n[1], n[2])

\* The filled ellipse inscribed in the box [x0, x1] x [y0, y1], clipped to
\* the image: row y is filled between the outline points of that row.
ellipse(gs, x0, y0, x1, y1) ==
    LET a == x1 - x0
        b == y1 - y0
        outline == IF a < 0 \/ b < 0 THEN {} ELSE quarter_walk(a, b, a, b % 2)
        Inside(x, y) == \E p \in outline :
                            /\ Abs(2 * (y - y0) - b) = p[2]
                            /\ Abs(2 * (x - x0) - a) <= p[1]
    IN  [y \in Pixels(gs) |-> [x \in Pixels(gs) |-> IF Inside(x, y) THEN 1 ELSE 0]]

\* _draw_disk(center, radius): center = (cx, cy) integers, radius = rn / rd.
\* The four float corners of the box are truncated to int by the drawing
\* primitive.
draw_disk(gs, cx, cy, rn, rd) ==
    ellipse(gs, int(cx * rd - rn, rd), int(cy * rd - rn, rd),
                int(cx * rd + rn, rd), int(cy * rd + rn, rd))

\* --------------------------------------------------------- draw_transit
StarRadius(gs) == gs \div 2

\* x_p = grid_size // 2 + int(phase * grid_size)
PlanetX(gs, pn) == gs \div 2 + int(pn * gs, PhaseDen)

\* y_p = grid_size // 2 + int(impact_parameter * grid_size // 2)
PlanetY(gs, bn) == gs \div 2 + int(FloorDiv(bn * gs, 2 * ImpactDen), 1)

\* Mutant of clip: the clip is left out.
clip_none(v) == v

\* grid.clip(min=0.0)
clip(v) == IF v < 0 THEN 0 ELSE v

\* Mutants of Subtract: the operands exchanged; the planet added.
Subtract_reversed(s, p) == p - s
Subtract_added(s, p) == s + p

\* grid = star / norm; grid -= planet / norm   (numerators over norm)
Subtract(s, p) == s - p

FluxMap(gs, st, pl) ==
    [y \in Pixels(gs) |-> [x \in Pixels(gs) |-> clip(Subtract(st[y][x], pl[y][x]))]]

\* ------------------------------------------------------- column density
RECURSIVE Euclid(_, _)
Euclid(m, n) == IF n = 0 THEN m ELSE Euclid(n, m % n)

Gcd(m, n) == Euclid(Abs(m), Abs(n))

\* The exact number (num + irr * sqrt(rad)) / den, den > 0, in lowest terms;
\* the square root of a perfect square is folded into num.
Number(num, irr, rad, den) ==
    LET n == IF IsSquare(rad) THEN num + irr * isqrt(rad) ELSE num
        i == IF IsSquare(rad) THEN 0 ELSE irr
        g == Gcd(Gcd(n, i), den)
    IN  [num |-> n \div g, irr |-> i \div g, rad |-> IF i = 0 THEN 0 ELSE rad,
         den |-> den \div g]

Zero == Number(0, 0, 0, 1)

\* Mutant of zeros_like: np.ones_like.
ones_like(gs) == [y \in Pixels(gs) |-> [x \in Pixels(gs) |-> Number(1, 0, 0, 1)]]

\* np.zeros_like(grid)
zeros_like(gs) == [y \in Pixels(gs) |-> [x \in Pixels(gs) |-> Zero]]

\* np.meshgrid(one_d_coords, one_d_coords): x_s[i][j] = j, y_s[i][j] = i.
x_s(i, j) == j
y_s(i, j) == i

\* np.array([x_s - x_p, y_s - y_p]).T : axes reversed, so the entry [j][i]
\* holds the two coordinates of the meshgrid entry [i][j].
planet_centric_coords(gs, xp, yp) ==
    [j \in Pixels(gs) |-> [i \in Pixels(gs) |-> <<x_s(i, j) - xp, y_s(i, j) - yp>>]]

\* Mutant of r_p_squared: the final transposition is left out.
r_p_squared_untransposed(gs, xp, yp) ==
    LET c == planet_centric_coords(gs, xp, yp)
    IN  [i \in Pixels(gs) |-> [j \in Pixels(gs) |->
            c[i][j][1] * c[i][j][1] + c[i][j][2] * c[i][j][2]]]

\* (np.sum(planet_centric_coords ** 2, axis=-1) ** 0.5).T before the square
\* root and the scaling by px_size: squared pixel distance at [row][col].
r_p_squared(gs, xp, yp) ==
    LET c == planet_centric_coords(gs, xp, yp)
    IN  [i \in Pixels(gs) |-> [j \in Pixels(gs) |->
            c[j][i][1] * c[j][i][1] + c[j][i][2] * c[j][i][2]]]

\* column_density = 2 * np.sum(np.array([density_profile, density_profile]), axis=0)
column_density(dp) == [k \in 1 .. Len(dp) |-> 2 * (dp[k] + dp[k])]

\* interp1d sorts the samples by x (assume_sorted=False): the k-th smallest.
RECURSIVE argsort(_, _)
argsort(xs, todo) ==
    IF todo = {} THEN <<>>
    ELSE LET k == CHOOSE k \in todo : \A m \in todo : xs[k] <= xs[m]
         IN  <<k>> \o argsort(xs, todo \ {k})

\* Mutant of interp1d: no fill value, the end segments are extrapolated.
interp1d_extrapolating(xs0, ys0, pxn, pxd, d2) ==
    LET order == argsort(xs0, DOMAIN xs0)
        n  == Len(xs0)
        xs == [k \in 1 .. n |-> xs0[order[k]]]
        ys == [k \in 1 .. n |-> ys0[order[k]]]
        Less(x) == x * x * pxd * pxd < pxn * pxn * d2
        found == Cardinality({k \in 1 .. n : Less(xs[k])})
        lo == IF found < 1 THEN 1 ELSE IF found > n - 1 THEN n - 1 ELSE found
        hi == lo + 1
        dx == xs[hi] - xs[lo]
        dy == ys[hi] - ys[lo]
    IN  Number(ys[lo] * dx * pxd - dy * xs[lo] * pxd, dy * pxn, d2, dx * pxd)

\* f(r) for f = interp1d(profile_radius, column_density, bounds_error=False,
\* fill_value=0.0), at r = (pxn / pxd) * sqrt(d2): linear between the two
\* neighbouring samples, fill value outside [min x, max x].
interp1d(xs0, ys0, pxn, pxd, d2) ==
    LET order == argsort(xs0, DOMAIN xs0)
        n  == Len(xs0)
        xs == [k \in 1 .. n |-> xs0[order[k]]]
        ys == [k \in 1 .. n |-> ys0[order[k]]]
        \* x < r, r < x for a sample x >= 0
        Less(x)    == x * x * pxd * pxd < pxn * pxn * d2
        Greater(x) == x * x * pxd * pxd > pxn * pxn * d2
        \* np.searchsorted(x, r), clipped to 1 .. n - 1 (0-based)
        found == Cardinality({k \in 1 .. n : Less(xs[k])})
        hi0 == IF found < 1 THEN 1 ELSE IF found > n - 1 THEN n - 1 ELSE found
        lo == hi0
        hi == hi0 + 1
        dx == xs[hi] - xs[lo]
        dy == ys[hi] - ys[lo]
    IN  IF Greater(xs[1]) \/ Less(xs[n])
        THEN Zero
        ELSE Number(ys[lo] * dx * pxd - dy * xs[lo] * pxd, dy * pxn, d2, dx * pxd)

\* density_map = f(r_p), px_size = planet_physical_radius / planet_radius
\* with planet_radius = star_radius * ratio_num / RatioDen.
DensityMap(gs, xp, yp, dp, pr, phys, rn) ==
    LET r2 == r_p_squared(gs, xp, yp)
        pxn == phys * RatioDen
        pxd == StarRadius(gs) * rn
        cd == column_density(dp)
    IN  [i \in Pixels(gs) |-> [j \in Pixels(gs) |-> interp1d(pr, cd, pxn, pxd, r2[i][j])]]

\* The density branch raises: division by a zero planet_radius, or samples
\* interp1d rejects (profile_radius omitted, or of another length).
DensityRaises(gs, dp, pr, phys, rn) ==
    /\ dp # None
    /\ \/ StarRadius(gs) * rn = 0
       \/ pr = None
       \/ Len(pr) # Len(dp)

\* ------------------------------------------------------------- the state
VARIABLES
    pc,                      \* "ready": arguments chosen; "returned"; "raised"
    planet_to_star_ratio,    \* ratio_num
    impact_parameter,        \* impact_num
    phase,                   \* phase_num
    grid_size,
    density_profile,         \* None or a sequence of volumetric densities
    profile_radius,          \* None or a sequence of radii
    planet_physical_radius,  \* a positive integer
    locals,                  \* None or Some([star, norm, x_p, y_p, planet])
    normalized_flux_map,     \* None or the returned map, numerators over norm
    density_map,             \* None or the returned map
    previous                 \* None or Some(summary of the preceding call)

vars == <<pc, planet_to_star_ratio, impact_parameter, phase, grid_size,
          density_profile, profile_radius, planet_physical_radius,
          locals, normalized_flux_map, density_map, previous>>

args == <<impact_parameter, phase, grid_size, density_profile, profile_radius,
          planet_physical_radius>>

Densities == [1 .. 2 -> 0 .. MaxDensity]

Radii == {xs \in [1 .. 2 -> 1 .. MaxRadius] : xs[1] # xs[2]}

Init ==
    /\ pc = "ready"
    /\ planet_to_star_ratio \in 0 .. MaxRatioNum
    /\ impact_parameter \in (-MaxImpactNum) .. MaxImpactNum
    /\ phase \in (-MaxPhaseNum) .. MaxPhaseNum
    /\ grid_size \in 1 .. MaxGrid
    /\ density_profile \in {None} \cup Densities
    /\ profile_radius \in {None} \cup Radii
    /\ planet_physical_radius \in 1 .. MaxPhys
    /\ locals = None
    /\ normalized_flux_map = None
    /\ density_map = None
    /\ previous = None

\* The body of draw_transit for the current arguments and ratio rn.
Body(rn) ==
    LET gs == grid_size
        st == draw_disk(gs, StarRadius(gs), StarRadius(gs), StarRadius(gs), 1)
        xp == PlanetX(gs, phase)
        yp == PlanetY(gs, impact_parameter)
        pl == draw_disk(gs, xp, yp, StarRadius(gs) * rn, RatioDen)
        raises == DensityRaises(gs, density_profile, profile_radius,
                                planet_physical_radius, rn)
    IN  /\ planet_to_star_ratio' = rn
        /\ locals' = Some([star |-> st, norm |-> np_sum(st, gs), x_p |-> xp,
                           y_p |-> yp, planet |-> IF raises THEN None ELSE pl])
        /\ IF raises
           THEN /\ pc' = "raised"
                /\ density_map' = None
                /\ normalized_flux_map' = None
           ELSE /\ pc' = "returned"
                /\ density_map' =
                     IF density_profile # None
                     THEN DensityMap(gs, xp, yp, density_profile, profile_radius,
                                     planet_physical_radius, rn)
                     ELSE zeros_like(gs)
                /\ normalized_flux_map' = FluxMap(gs, st, pl)
        /\ UNCHANGED args

\* What a later call is compared with.
Summary ==
    [ratio  |-> planet_to_star_ratio,
     sum    |-> np_sum(normalized_flux_map, grid_size),
     norm   |-> locals[1].norm,
     shared |-> Cardinality({px \in Pixels(grid_size) \X Pixels(grid_size) :
                    locals[1].star[px[1]][px[2]] = 1 /\ locals[1].planet[px[1]][px[2]] = 1})]

\* draw_transit(planet_to_star_ratio, impact_parameter, phase, grid_size, ...)
DrawTransit ==
    /\ pc = "ready"
    /\ Body(planet_to_star_ratio)
    /\ UNCHANGED previous

\* A further call with a larger planet_to_star_ratio and all else fixed.
\* The flux map does not read the density arguments, so the two sums are
\* compared for calls without a profile.
DrawLarger ==
    /\ pc = "returned"
    /\ density_profile = None
    /\ previous' = Some(Summary)
    /\ \E rn \in 0 .. MaxRatioNum :
          /\ rn > planet_to_star_ratio
          /\ Body(rn)

Next == DrawTransit \/ DrawLarger

Spec == Init /\ [][Next]_vars


\* ------------------------------------------------------------ properties
Returned == pc = "returned"

Grid == Pixels(grid_size) \X Pixels(grid_size)      \* <<row, col>>

StarAt(px)   == locals[1].star[px[1]][px[2]] = 1
PlanetAt(px) == locals[1].planet[px[1]][px[2]] = 1
FluxAt(px)   == normalized_flux_map[px[1]][px[2]]
DensityAt(px) == density_map[px[1]][px[2]]

Shared == {px \in Grid : StarAt(px) /\ PlanetAt(px)}

FluxSum == np_sum(normalized_flux_map, grid_size)

\* Squared pixel distance of <<row, col>> from column x_p, row y_p.
Dist2(px) == (px[2] - locals[1].x_p) * (px[2] - locals[1].x_p)
           + (px[1] - locals[1].y_p) * (px[1] - locals[1].y_p)

\* px_size = PxNum / PxDen
PxNum == planet_physical_radius * RatioDen
PxDen == StarRadius(grid_size) * planet_to_star_ratio

\* r < x, r = x, r > x for the physical radius r of a pixel and x >= 0
RadiusBelow(px, x) == PxNum * PxNum * Dist2(px) < x * x * PxDen * PxDen
RadiusEquals(px, x) == PxNum * PxNum * Dist2(px) = x * x * PxDen * PxDen
RadiusAbove(px, x) == PxNum * PxNum * Dist2(px) > x * x * PxDen * PxDen

Samples == {profile_radius[k] : k \in DOMAIN profile_radius}

\* C1: every pixel of the returned flux map is >= 0.
C1_FluxNonNegative ==
    Returned => \A px \in Grid : FluxAt(px) >= 0

\* A returned map whose planet disk has a pixel outside the star disk.
C1_Witness ==
    /\ Returned
    /\ \E px \in Grid : PlanetAt(px) /\ ~StarAt(px) /\ FluxAt(px) = 0

\* C2: the flux map sums to 1 (norm over norm) iff the planet disk shares no
\* pixel with the star disk, and otherwise to 1 - (shared pixels) / norm < 1.
C2_SumIsOneIffNoOverlap ==
    Returned =>
        /\ FluxSum = locals[1].norm - Cardinality(Shared)
        /\ (FluxSum = locals[1].norm) <=> (Shared = {})
        /\ (Shared # {}) => FluxSum < locals[1].norm

\* A returned map whose planet disk lies partly on and partly off the star.
C2_Witness ==
    /\ Returned
    /\ Shared # {}
    /\ \E px \in Grid : PlanetAt(px) /\ ~StarAt(px)
    /\ FluxSum < locals[1].norm

\* C3 as stated: with no density profile and a positive ratio the sum lies in
\* (0, 1].
C3_SumInHalfOpenInterval ==
    (Returned /\ density_profile = None /\ planet_to_star_ratio > 0) =>
        (0 < FluxSum /\ FluxSum <= locals[1].norm)

\* C3 amended: with no density profile and a positive ratio the sum lies in
\* [0, 1], and it is 0 exactly when the planet disk covers every star pixel.
C3_SumInClosedInterval ==
    (Returned /\ density_profile = None /\ planet_to_star_ratio > 0) =>
        /\ 0 <= FluxSum /\ FluxSum <= locals[1].norm
        /\ (FluxSum = 0) <=> (\A px \in Grid : StarAt(px) => PlanetAt(px))

\* A planet disk that covers the whole star: the map sums to 0.
C3_Witness ==
    /\ Returned /\ density_profile = None /\ planet_to_star_ratio > 0
    /\ FluxSum = 0
    /\ locals[1].norm > 1

AllZeros(map) ==
    /\ DOMAIN map = Pixels(grid_size)
    /\ \A y \in Pixels(grid_size) :
          /\ DOMAIN map[y] = Pixels(grid_size)
          /\ \A x \in Pixels(grid_size) : map[y][x] = Zero

\* C4 as stated: when density_profile or profile_radius is omitted the call
\* returns an all-zero density map of the shape of the flux map.
C4_ZerosWhenEitherOmitted ==
    (pc # "ready" /\ (density_profile = None \/ profile_radius = None)) =>
        (Returned /\ AllZeros(density_map))

\* C4 amended: when density_profile is omitted the call returns an all-zero
\* density map of the shape of the flux map, whether or not profile_radius
\* is given; when density_profile is given and profile_radius is omitted the
\* call raises and returns no map.
C4_ZerosWhenProfileOmitted ==
    /\ (pc # "ready" /\ density_profile = None) =>
          (Returned /\ AllZeros(density_map)
                    /\ DOMAIN normalized_flux_map = DOMAIN density_map)
    /\ (pc # "ready" /\ density_profile # None /\ profile_radius = None) =>
          (pc = "raised" /\ density_map = None)

\* density_profile omitted while profile_radius is given.
C4_Witness ==
    /\ Returned
    /\ density_profile = None /\ profile_radius # None
    /\ AllZeros(density_map)
    /\ grid_size > 1

\* C5: with a density profile, every pixel whose planet-centric physical
\* radius lies outside [min(profile_radius), max(profile_radius)] has
\* density 0.
C5_ZeroOutsideSampledRange ==
    (Returned /\ density_profile # None) =>
        \A px \in Grid :
            (\/ \A x \in Samples : RadiusBelow(px, x)
             \/ \A x \in Samples : RadiusAbove(px, x)) => DensityAt(px) = Zero

\* A density map with a pixel below the range, one above it and a non-zero
\* one inside it.
C5_Witness ==
    /\ Returned /\ density_profile # None
    /\ \E px \in Grid : (\A x \in Samples : RadiusBelow(px, x)) /\ DensityAt(px) = Zero
    /\ \E px \in Grid : (\A x \in Samples : RadiusAbove(px, x)) /\ DensityAt(px) = Zero
    /\ \E px \in Grid : DensityAt(px) # Zero

C7_RotationSymmetric ==
    (Returned /\ impact_parameter = 0 /\ phase = 0) =>
        \A px \in Grid :
            FluxAt(px) = FluxAt(<<grid_size - 1 - px[1], grid_size - 1 - px[2]>>)

\* Neither fully covered nor fully missed: some, not all, star pixels shared.
PartlyCovered(shared, n) == 0 < shared /\ shared < n

\* C8: of two calls that differ only in planet_to_star_ratio, the one with
\* the larger ratio returns the strictly smaller sum, as long as the planet
\* disk neither fully covers nor fully misses the star disk in either.
C8_SumStrictlyDecreasing ==
    (/\ Returned /\ previous # None
     /\ PartlyCovered(previous[1].shared, previous[1].norm)
     /\ PartlyCovered(Cardinality(Shared), locals[1].norm)) =>
        (previous[1].ratio < planet_to_star_ratio => previous[1].sum > FluxSum)

\* C9: both offsets of the planet centre are truncated toward zero, so that
\* negating phase or impact_parameter mirrors the centre about the star
\* centre (grid_size // 2, grid_size // 2).
C9_CentreTruncatedTowardZero ==
    (pc # "ready") =>
        /\ locals[1].x_p = grid_size \div 2 + int(phase * grid_size, PhaseDen)
        /\ locals[1].y_p = grid_size \div 2 + int(impact_parameter * grid_size, 2 * ImpactDen)
        /\ PlanetX(grid_size, -phase) - grid_size \div 2
               = -(locals[1].x_p - grid_size \div 2)
        /\ PlanetY(grid_size, -impact_parameter) - grid_size \div 2
               = -(locals[1].y_p - grid_size \div 2)

\* C10: at a pixel whose physical radius equals profile_radius[k] the density
\* map holds exactly 2 * density_profile[k].
C10_TwiceTheProfileAtSamples ==
    (Returned /\ density_profile # None) =>
        \A px \in Grid : \A k \in DOMAIN profile_radius :
            RadiusEquals(px, profile_radius[k]) =>
                DensityAt(px) = Number(2 * density_profile[k], 0, 0, 1)

====
